---- MODULE Spec2Model ----
(***************************************************************************)
(* EventsService (src/src/services/EventsService.ts): the WebSocket event  *)
(* client of the Qminder API.  The model holds the fields of the singleton *)
(* EventsService object, the transport handles it has created (each with   *)
(* its readyState) and the timers it has started.  Every handler is an     *)
(* operator from a state record to a state record, so that a handler that  *)
(* calls another one (subscribe ->                                         *)
(* openSocket, onopen -> subscribe -> send) is one atomic step, as it is   *)
(* on the single JavaScript task queue.                                    *)
(*                                                                         *)
(* Abstractions:                                                           *)
(*  - createId() draws 30 random characters; the model hands out fresh     *)
(*    integers (no collision of two random identifiers).                   *)
(*  - a timer handle is Null (null/undefined), Live (the handle of a       *)
(*    pending timer) or Dead (the truthy handle of a timer that has fired  *)
(*    or was cleared); running ping intervals whose handle the object has  *)
(*    overwritten are counted in pingLeaked.                               *)
(*  - the transport is not part of the repository.  It follows the         *)
(*    WebSocket API: send() on a CONNECTING handle throws; send() on a     *)
(*    CLOSING or CLOSED handle throws or silently discards the frame,      *)
(*    depending on the build (browser WebSocket or node socket, see line 1 *)
(*    of the source): both outcomes are explored.  The close code the      *)
(*    transport reports is its own choice.                                 *)
(***************************************************************************)
EXTENDS Integers, Sequences, FiniteSets, TLC

VARIABLES
  \* fields of the EventsService object
  apiKey, socket, connecting, connected, retryTimeout, pingInterval,
  subscriptions, connectionRetries, subscriptionCallbackMap,
  onConnectCallbacks, onDisconnectCallbacks,
  \* the platform: readyState of every transport handle created so far,
  \* pending timers the object holds no handle of, the delay of the retry
  \* timer started last, the identifiers drawn
  readyState, pingLeaked, retryDelay, nextId,
  \* history: the operation that ran last (with its outcome, the frames it
  \* handed to send(), each with the handle and the handle's readyState at
  \* that moment, and the callbacks it invoked),
  \* open signals handled since the last reset or construction (2 for two
  \* or more), the first identifier drawn after the last reset, the
  \* abnormal closes since the retry counter was last set to
  \* 0, and the position in the sequence reset(); setKey(key); typed
  \* subscribe (1, 2, 3; 0 outside it)
  last, opens, resetId, abnormalRun, fresh

vars == <<apiKey, socket, connecting, connected, retryTimeout, pingInterval,
          subscriptions, connectionRetries, subscriptionCallbackMap,
          onConnectCallbacks, onDisconnectCallbacks,
          readyState, pingLeaked, retryDelay, nextId,
          last, opens, resetId, abnormalRun, fresh>>

(***************************************************************************)
(* Bounds of the model.                                                    *)
(***************************************************************************)
\* transport handles created in one behaviour
MaxSockets == 2
\* typed subscribe calls in one behaviour
MaxSubs == 2
\* observers registered in one list
MaxObs == 2
\* abnormal closes in one behaviour of the backoff specification
MaxRetries == 560

(***************************************************************************)
(* Program constants.                                                      *)
(***************************************************************************)
CONNECTING == 0
OPEN == 1
CLOSING == 2
CLOSED == 3
NormalClosure == 1000
BaseDelay == 5000
StepDelay == 1000
MaxDelay == 60000
RetriesPerStep == 10
PingPeriod == 10000

AbnormalClosure == 1006

\* close codes the transport may report; the program tells 1000 from every
\* other code, 1006 stands for the others
CloseCodes == {NormalClosure, AbnormalClosure}
\* the code of a close that carried no status: close() is called with no
\* code, and an endpoint that echoes the close frame echoes none
NoStatusReceived == 1005

Null == "null"
Live == "live"
Dead == "dead"
NoSocket == 0
\* the callback argument of a subscribe call that passes none
NoCallback == "undefined"

\* JavaScript values a caller passes: a number, undefined, a string
NumArg(n) == [type |-> "number", val |-> n]
UndefArg == [type |-> "undefined"]
StrArg(s) == [type |-> "string", val |-> s]
\* a filter object { line, location }
FilterArg(line, location) == [type |-> "object", line |-> line, location |-> location]
\* a parameters object { id }
ParamArg(id) == [type |-> "object", id |-> id]

\* the API keys a caller passes to setKey: the empty string and a real key
Keys == {"", "KEY"}

\* callbacks a caller supplies: one that returns, one that throws an Error
\* and one that throws null (throw accepts any value)
Callbacks == {"cb", "cbThrows", "cbThrowsNull"}
Throws(cb) == cb \in {"cbThrows", "cbThrowsNull"}
ThrowsNull(cb) == cb = "cbThrowsNull"

\* arguments a caller passes to onConnect / onDisconnect
ObserverArgs == {"cb", "cbThrows", "notAFunction"}
IsFunction(x) == x \in Callbacks

Min(a, b) == IF a < b THEN a ELSE b


(***************************************************************************)
(* The state the handlers work on: the fields of the EventsService object, *)
(* the transport handles and timers it owns, the frames handed to send(),  *)
(* and, while a handler runs, the exception in flight (exc), the callbacks *)
(* it has invoked, the frames it has handed to send(), the arguments the   *)
(* caller has passed (args) and what it has written with console.error.    *)
(***************************************************************************)
S == [apiKey |-> apiKey, socket |-> socket, connecting |-> connecting,
      connected |-> connected, retryTimeout |-> retryTimeout,
      pingInterval |-> pingInterval, subscriptions |-> subscriptions,
      connectionRetries |-> connectionRetries,
      subscriptionCallbackMap |-> subscriptionCallbackMap,
      onConnectCallbacks |-> onConnectCallbacks,
      onDisconnectCallbacks |-> onDisconnectCallbacks,
      readyState |-> readyState,
      pingLeaked |-> pingLeaked, retryDelay |-> retryDelay,
      nextId |-> nextId,
      exc |-> FALSE, invoked |-> <<>>, frames |-> <<>>, args |-> <<>>,
      errors |-> <<>>]

Throw(st) == [st EXCEPT !.exc = TRUE]

\* clearTimeout / clearInterval on a handle: a pending timer is cancelled
ClearHandle(h) == IF h = Live THEN Dead ELSE h

\* setTimeout: the new timer is pending.  Every assignment to retryTimeout
\* follows a clearTimeout of the handle it overwrites, so no pending retry
\* timer is ever lost; setInterval has no such guard (see SetPingTimer)
SetRetryTimer(st, delay) ==
  [st EXCEPT !.retryTimeout = Live,
             !.retryDelay = delay]

\* setInterval(() => this.socket.send("PING"), 10000): a running interval
\* whose handle is overwritten keeps running, out of the object's reach
SetPingTimer(st) ==
  [st EXCEPT !.pingLeaked = IF st.pingInterval = Live THEN @ + 1 ELSE @,
             !.pingInterval = Live]

(***************************************************************************)
(* Wire frames.  A subscription record holds only the fields that          *)
(* createSubscription has set.  JSON.stringify writes a number as the      *)
(* number, a string as a string, and leaves out a property whose value is  *)
(* undefined.                                                              *)
(***************************************************************************)
JsonValue(arg) == IF arg.type = "number" THEN arg.val ELSE [string |-> arg.val]

StringifyParams(params) ==
  IF params.id.type = "undefined" THEN <<>> ELSE [id |-> JsonValue(params.id)]

Stringify(sub) ==
  [json |-> [k \in DOMAIN sub |->
               CASE k = "id" -> sub[k]
                 [] k = "subscribe" -> sub[k]
                 [] k = "parameters" -> StringifyParams(sub[k])
                 [] OTHER -> JsonValue(sub[k])]]

PingFrame == [text |-> "PING"]

\* an entry of the send log that carries a subscribe message
IsSubscribeFrame(e) == "json" \in DOMAIN e.frame

\* socket.send(frame) on the handle this.socket refers to: the frame is
\* recorded with the readyState the handle has at that moment
send(st, frame, thr) ==
  IF st.socket = NoSocket
  THEN Throw(st)
  ELSE LET rs == st.readyState[st.socket]
           handed == [st EXCEPT !.frames =
                        Append(@, [sock |-> st.socket, rs |-> rs, frame |-> frame])]
       IN IF rs = CONNECTING \/ (rs \in {CLOSING, CLOSED} /\ thr)
          THEN Throw(handed)
          ELSE handed

\* new WebSocket(url): a new handle, CONNECTING
NewWebSocket(st) ==
  [st EXCEPT !.readyState = Append(@, CONNECTING),
             !.socket = Len(st.readyState) + 1]

\* openSocket without the double-open guard
openSocketNoGuard(st) ==
  IF st.apiKey = ""
  THEN Throw(st)
  ELSE LET s1 == [st EXCEPT !.connecting = TRUE]
           s2 == IF s1.retryTimeout # Null
                 THEN [s1 EXCEPT !.retryTimeout = ClearHandle(@)]
                 ELSE s1
       IN NewWebSocket(s2)

\* openSocket without the check of the API key
openSocketNoKeyCheck(st) ==
  IF st.connecting \/ st.connected
  THEN st
  ELSE LET s1 == [st EXCEPT !.connecting = TRUE]
           s2 == IF s1.retryTimeout # Null
                 THEN [s1 EXCEPT !.retryTimeout = ClearHandle(@)]
                 ELSE s1
       IN NewWebSocket(s2)

openSocket(st) ==
  IF st.apiKey = ""
  THEN Throw(st)
  ELSE IF st.connecting \/ st.connected
       THEN st
       ELSE LET s1 == [st EXCEPT !.connecting = TRUE]
                s2 == IF s1.retryTimeout # Null
                      THEN [s1 EXCEPT !.retryTimeout = ClearHandle(@)]
                      ELSE s1
            IN NewWebSocket(s2)

HasId(subs, id) == \E i \in 1..Len(subs) : subs[i].id = id

Put(f, k, v) == [x \in DOMAIN f \cup {k} |-> IF x = k THEN v ELSE f[x]]

\* subscribe that also sends while the connection is being opened
subscribeSendsWhileConnecting(st, subscription, callback, thr) ==
  LET s1 == IF ~HasId(st.subscriptions, subscription.id)
            THEN [st EXCEPT !.subscriptions = Append(@, subscription)]
            ELSE st
      s2 == IF IsFunction(callback)
            THEN [s1 EXCEPT !.subscriptionCallbackMap =
                              Put(@, subscription.id, callback)]
            ELSE s1
  IN IF s2.connected \/ s2.connecting
     THEN send(s2, Stringify(subscription), thr)
     ELSE openSocket(s2)

\* subscribe that pushes the record without looking for its id
subscribeAlwaysPushes(st, subscription, callback, thr) ==
  LET s1 == [st EXCEPT !.subscriptions = Append(@, subscription)]
      s2 == IF IsFunction(callback)
            THEN [s1 EXCEPT !.subscriptionCallbackMap =
                              Put(@, subscription.id, callback)]
            ELSE s1
  IN IF s2.connected
     THEN send(s2, Stringify(subscription), thr)
     ELSE IF ~s2.connecting
          THEN openSocket(s2)
          ELSE s2

\* subscribe(subscription, callback); a replay passes no callback
subscribe(st, subscription, callback, thr) ==
  LET s1 == IF ~HasId(st.subscriptions, subscription.id)
            THEN [st EXCEPT !.subscriptions = Append(@, subscription)]
            ELSE st
      s2 == IF IsFunction(callback)
            THEN [s1 EXCEPT !.subscriptionCallbackMap =
                              Put(@, subscription.id, callback)]
            ELSE s1
  IN IF s2.connected
     THEN send(s2, Stringify(subscription), thr)
     ELSE IF ~s2.connecting
          THEN openSocket(s2)
          ELSE s2

\* the elements i..n of this.subscriptions.forEach(...); an exception ends
\* the loop
RECURSIVE ReplayFrom(_, _, _, _)
ReplayFrom(st, i, n, thr) ==
  IF st.exc \/ i > n
  THEN st
  ELSE ReplayFrom(subscribe(st, st.subscriptions[i], NoCallback, thr),
                  i + 1, n, thr)

\* this.subscriptions.forEach(message => this.subscribe(message)), from
\* index i on; forEach visits the elements the array has when it starts
Replay(st, i, thr) == ReplayFrom(st, i, Len(st.subscriptions), thr)

\* callbacks.forEach(each => (typeof each === 'function') && each()), from
\* index i on; an exception ends the loop
RECURSIVE InvokeAll(_, _, _)
InvokeAll(st, callbacks, i) ==
  IF st.exc \/ i > Len(callbacks)
  THEN st
  ELSE LET cb == callbacks[i]
           s1 == IF IsFunction(cb)
                 THEN [st EXCEPT !.invoked = Append(@, cb),
                                 !.exc = Throws(cb)]
                 ELSE st
       IN InvokeAll(s1, callbacks, i + 1)

\* socket.onopen that leaves the retry counter as it is
onopenKeepsRetries(st, thr) ==
  LET s1 == [st EXCEPT !.connected = TRUE]
      s2 == Replay(s1, 1, thr)
  IN IF s2.exc
     THEN s2
     ELSE LET s3 == SetPingTimer(s2)
          IN IF Len(s3.onConnectCallbacks) > 0
             THEN InvokeAll(s3, s3.onConnectCallbacks, 1)
             ELSE s3

\* socket.onopen
onopen(st, thr) ==
  LET s1 == [st EXCEPT !.connected = TRUE, !.connectionRetries = 0]
      s2 == Replay(s1, 1, thr)
  IN IF s2.exc
     THEN s2
     ELSE LET s3 == SetPingTimer(s2)
          IN IF Len(s3.onConnectCallbacks) > 0
             THEN InvokeAll(s3, s3.onConnectCallbacks, 1)
             ELSE s3

\* the retry delay computed from the retry counter after it has counted
\* the close at hand
BackoffAfterCount(retries) ==
  Min(BaseDelay + ((retries + 1) \div RetriesPerStep) * StepDelay, MaxDelay)

\* the retry delay computed from the retry counter
Backoff(retries) ==
  Min(BaseDelay + (retries \div RetriesPerStep) * StepDelay, MaxDelay)

\* socket.onclose that calls the disconnect observers before it schedules
\* the retry
oncloseObserversFirst(st, code) ==
  LET s1 == [st EXCEPT !.connected = FALSE, !.connecting = FALSE]
      s2 == IF s1.pingInterval # Null
            THEN [s1 EXCEPT !.pingInterval = Null]
            ELSE s1
      s3 == IF Len(s2.onDisconnectCallbacks) > 0
            THEN InvokeAll(s2, s2.onDisconnectCallbacks, 1)
            ELSE s2
  IN IF ~s3.exc /\ code # NormalClosure
     THEN LET newTimeout == Backoff(s3.connectionRetries)
              c1 == IF s3.retryTimeout # Null
                    THEN [s3 EXCEPT !.retryTimeout = ClearHandle(@)]
                    ELSE s3
              c2 == SetRetryTimer(c1, newTimeout)
          IN [c2 EXCEPT !.connectionRetries = @ + 1]
     ELSE s3

\* socket.onclose
onclose(st, code) ==
  LET s1 == [st EXCEPT !.connected = FALSE, !.connecting = FALSE]
      s2 == IF s1.pingInterval # Null
            THEN [s1 EXCEPT !.pingInterval = Null]
            ELSE s1
      s3 == IF code # NormalClosure
            THEN LET newTimeout == Backoff(s2.connectionRetries)
                     c1 == IF s2.retryTimeout # Null
                           THEN [s2 EXCEPT !.retryTimeout = ClearHandle(@)]
                           ELSE s2
                     c2 == SetRetryTimer(c1, newTimeout)
                 IN [c2 EXCEPT !.connectionRetries = @ + 1]
            ELSE s2
  IN IF Len(s3.onDisconnectCallbacks) > 0
     THEN InvokeAll(s3, s3.onDisconnectCallbacks, 1)
     ELSE s3

\* inbound frames: the literal PONG, text that is not JSON, binary data, an
\* event frame { subscriptionId, data }, and an event frame whose
\* subscriptionId names a property that every object inherits
PongFrame == [text |-> "PONG"]
GarbageFrame == [text |-> "not json"]
BinaryFrame == [binary |-> TRUE]
EventFrame(id) == [json |-> [subscriptionId |-> id, data |-> "event"]]
InheritedFrame == [json |-> [inherited |-> "toString", data |-> "event"]]

\* socket.onmessage with no test of the callback and no try / catch
onmessageUnguarded(st, data) ==
  IF data = PongFrame
  THEN st
  ELSE IF "json" \in DOMAIN data
       THEN IF "subscriptionId" \in DOMAIN data.json
            THEN LET id == data.json.subscriptionId
                 IN IF id \in DOMAIN st.subscriptionCallbackMap
                    THEN LET cb == st.subscriptionCallbackMap[id]
                         IN [st EXCEPT !.invoked = Append(@, cb),
                                       !.exc = Throws(cb)]
                    ELSE Throw(st)
            ELSE st
       ELSE IF "text" \in DOMAIN data
            THEN Throw(st)
            ELSE st

\* socket.onmessage with JSON.parse outside the try block
onmessageParseUncaught(st, data) ==
  IF data = PongFrame
  THEN st
  ELSE IF "json" \in DOMAIN data
       THEN IF "subscriptionId" \in DOMAIN data.json
            THEN LET id == data.json.subscriptionId
                 IN IF id \in DOMAIN st.subscriptionCallbackMap
                    THEN LET cb == st.subscriptionCallbackMap[id]
                         IN [st EXCEPT !.invoked = Append(@, cb),
                                       !.exc = ThrowsNull(cb)]
                    ELSE st
            ELSE st
       ELSE IF "text" \in DOMAIN data
            THEN Throw(st)
            ELSE st

\* socket.onmessage.  The catch block reads exc.stack of what the callback
\* has thrown: reading a property of null throws a TypeError, which leaves
\* the handler
onmessage(st, data) ==
  IF data = PongFrame
  THEN st
  ELSE IF "json" \in DOMAIN data
       THEN IF "subscriptionId" \in DOMAIN data.json
            THEN LET id == data.json.subscriptionId
                 IN IF id \in DOMAIN st.subscriptionCallbackMap
                    THEN LET cb == st.subscriptionCallbackMap[id]
                         IN [st EXCEPT !.invoked = Append(@, cb),
                                       !.exc = ThrowsNull(cb)]
                    ELSE st
            \* the lookup finds a function of Object.prototype: it is called,
            \* touches nothing of the client, and what it throws is caught
            ELSE st
       \* JSON.parse throws a SyntaxError, which the catch block logs;
       \* binary data is reported with console.warn
       ELSE st

\* socket.close() on the handle this.socket refers to
CloseHandle(st) == [st EXCEPT !.readyState[st.socket] = CLOSING]

\* console.error('[Qminder Events API] The socket is not open yet!', ...)
NotOpenYet == "The socket is not open yet!"

\* closeSocket that closes whatever handle there is
closeSocketAnyState(st) ==
  IF st.socket # NoSocket
  THEN CloseHandle(st)
  ELSE st

closeSocket(st) ==
  IF st.socket # NoSocket /\ st.readyState[st.socket] = OPEN
  THEN CloseHandle(st)
  ELSE IF st.socket # NoSocket
       THEN [st EXCEPT !.errors = Append(@, NotOpenYet)]
       ELSE st

\* createSubscription that copies the line of the filter only
createSubscriptionNoLocation(st, eventType, callback, filter, parameters, thr) ==
  LET s0 == [id |-> st.nextId, subscribe |-> eventType]
      s1 == IF filter.type = "object" /\ filter.line.type # "undefined"
            THEN Put(s0, "line", filter.line)
            ELSE s0
      s3 == IF parameters.type = "object"
            THEN Put(s1, "parameters", parameters)
            ELSE s1
  IN subscribe([st EXCEPT !.nextId = @ + 1], s3, callback, thr)

createSubscription(st, eventType, callback, filter, parameters, thr) ==
  LET s0 == [id |-> st.nextId, subscribe |-> eventType]
      s1 == IF filter.type = "object" /\ filter.line.type # "undefined"
            THEN Put(s0, "line", filter.line)
            ELSE s0
      s2 == IF filter.type = "object" /\ filter.location.type # "undefined"
            THEN Put(s1, "location", filter.location)
            ELSE s1
      s3 == IF parameters.type = "object"
            THEN Put(s2, "parameters", parameters)
            ELSE s2
  IN subscribe([st EXCEPT !.nextId = @ + 1], s3, callback, thr)

onTicketCreated(st, callback, filter, thr) ==
  createSubscription(st, "TICKET_CREATED", callback, filter, UndefArg, thr)

onTicketCalled(st, callback, filter, thr) ==
  createSubscription(st, "TICKET_CALLED", callback, filter, UndefArg, thr)

onLinesChanged(st, callback, id, thr) ==
  createSubscription(st, "LINES_CHANGED", callback, UndefArg, ParamArg(id), thr)

\* onLocationChanged without the check of the id
onLocationChangedNoTypeCheck(st, callback, id, thr) ==
  createSubscription(st, "LOCATION_CHANGE", callback, UndefArg, ParamArg(id),
                     thr)

onLocationChanged(st, callback, id, thr) ==
  IF id.type # "number"
  THEN Throw(st)
  ELSE createSubscription(st, "LOCATION_CHANGE", callback, UndefArg,
                          ParamArg(id), thr)

\* reset that leaves the registry as it is
resetKeepsRegistry(st) ==
  LET s1 == [st EXCEPT !.apiKey = ""]
      s2 == IF s1.socket # NoSocket /\ s1.readyState[s1.socket] = OPEN
            THEN CloseHandle(s1)
            ELSE s1
      s3 == [s2 EXCEPT !.connecting = FALSE, !.connected = FALSE]
      s4 == [s3 EXCEPT !.retryTimeout = Null]
      s5 == [s4 EXCEPT !.pingInterval = Null]
  IN [s5 EXCEPT !.connectionRetries = 0,
                !.subscriptionCallbackMap = <<>>,
                !.onConnectCallbacks = <<>>,
                !.onDisconnectCallbacks = <<>>]

reset(st) ==
  LET s1 == [st EXCEPT !.apiKey = ""]
      s2 == IF s1.socket # NoSocket /\ s1.readyState[s1.socket] = OPEN
            THEN CloseHandle(s1)
            ELSE s1
      s3 == [s2 EXCEPT !.connecting = FALSE, !.connected = FALSE]
      s4 == [s3 EXCEPT !.retryTimeout = Null]
      s5 == [s4 EXCEPT !.pingInterval = Null]
  IN [s5 EXCEPT !.subscriptions = <<>>,
                !.connectionRetries = 0,
                !.subscriptionCallbackMap = <<>>,
                !.onConnectCallbacks = <<>>,
                !.onDisconnectCallbacks = <<>>]

onConnect(st, callback) ==
  IF IsFunction(callback)
  THEN [st EXCEPT !.onConnectCallbacks = Append(@, callback)]
  ELSE Throw(st)

onDisconnect(st, callback) ==
  IF IsFunction(callback)
  THEN [st EXCEPT !.onDisconnectCallbacks = Append(@, callback)]
  ELSE Throw(st)

setKey(st, key) == [st EXCEPT !.apiKey = key]

(***************************************************************************)
(* The state machine.  Init is the state the constructor leaves (it calls  *)
(* reset() on the new object).  Each action runs one handler to its end.   *)
(***************************************************************************)
Init ==
  /\ apiKey = ""
  /\ socket = NoSocket
  /\ connecting = FALSE
  /\ connected = FALSE
  /\ retryTimeout = Null
  /\ pingInterval = Null
  /\ subscriptions = <<>>
  /\ connectionRetries = 0
  /\ subscriptionCallbackMap = <<>>
  /\ onConnectCallbacks = <<>>
  /\ onDisconnectCallbacks = <<>>
  /\ readyState = <<>>
  /\ pingLeaked = 0
  /\ retryDelay = 0
  /\ nextId = 1
  /\ last = [op |-> "constructor", threw |-> FALSE, sock |-> NoSocket,
             code |-> 0, frames |-> <<>>, opened |-> FALSE,
             invoked |-> <<>>, args |-> <<>>, errors |-> <<>>,
             pre |-> [connecting |-> FALSE, connected |-> FALSE,
                      retries |-> 0]]
  /\ opens = 0
  /\ resetId = 1
  /\ abnormalRun = 0
  /\ fresh = 0

\* the handler op, run for handle s (NoSocket for a caller's or a timer's
\* call) with close code c (0 when it is no close signal), has ended in
\* state st; lim bounds the handles of one behaviour
Ends(st, op, s, c, lim) ==
  /\ Len(st.readyState) > Len(readyState) => Len(st.readyState) <= lim
  /\ st.nextId <= MaxSubs + 1
  /\ Len(st.onConnectCallbacks) <= MaxObs
  /\ Len(st.onDisconnectCallbacks) <= MaxObs
  /\ apiKey' = st.apiKey
  /\ socket' = st.socket
  /\ connecting' = st.connecting
  /\ connected' = st.connected
  /\ retryTimeout' = st.retryTimeout
  /\ pingInterval' = st.pingInterval
  /\ subscriptions' = st.subscriptions
  /\ connectionRetries' = st.connectionRetries
  /\ subscriptionCallbackMap' = st.subscriptionCallbackMap
  /\ onConnectCallbacks' = st.onConnectCallbacks
  /\ onDisconnectCallbacks' = st.onDisconnectCallbacks
  /\ readyState' = st.readyState
  /\ pingLeaked' = st.pingLeaked
  /\ retryDelay' = st.retryDelay
  /\ nextId' = st.nextId
  /\ last' = [op |-> op, threw |-> st.exc, sock |-> s, code |-> c,
              frames |-> st.frames,
              opened |-> Len(st.readyState) > Len(readyState),
              invoked |-> st.invoked, args |-> st.args,
              errors |-> st.errors,
              pre |-> [connecting |-> connecting, connected |-> connected,
                       retries |-> connectionRetries]]

\* a caller sets the API key
SetKey ==
  \E key \in Keys :
    /\ Ends(setKey(S, key), "setKey", NoSocket, 0, MaxSockets)
    /\ fresh' = IF fresh = 1 /\ key # "" THEN 2 ELSE 0
    /\ UNCHANGED <<opens, resetId, abnormalRun>>

\* a caller asks for the connection to be opened
OpenSocketCall(lim) ==
  /\ Ends(openSocket(S), "openSocket", NoSocket, 0, lim)
  /\ fresh' = 0
  /\ UNCHANGED <<opens, resetId, abnormalRun>>

OpenSocket == OpenSocketCall(MaxSockets)

CloseSocket ==
  /\ Ends(closeSocket(S), "closeSocket", NoSocket, 0, MaxSockets)
  /\ fresh' = 0
  /\ UNCHANGED <<opens, resetId, abnormalRun>>

Reset ==
  /\ Ends(reset(S), "reset", NoSocket, 0, MaxSockets)
  /\ fresh' = 1
  /\ opens' = 0
  /\ resetId' = nextId
  /\ abnormalRun' = 0

\* a typed subscribe call ends in state st
Subscribed(st, op) ==
  /\ Ends(st, op, NoSocket, 0, MaxSockets)
  /\ fresh' = IF fresh = 2 THEN 3 ELSE 0
  /\ UNCHANGED <<opens, resetId, abnormalRun>>

\* onTicketCalled(callback, filter)
OnTicketCalledWith(callbacks, filters) ==
  \E cb \in callbacks, filter \in filters, thr \in BOOLEAN :
    Subscribed(onTicketCalled([S EXCEPT !.args = <<cb, filter>>], cb, filter,
                              thr), "onTicketCalled")

\* onLocationChanged(callback, id)
OnLocationChangedWith(callbacks, ids) ==
  \E cb \in callbacks, id \in ids, thr \in BOOLEAN :
    Subscribed(onLocationChanged([S EXCEPT !.args = <<cb, id>>], cb, id, thr),
               "onLocationChanged")

\* onConnect(callback)
OnConnectWith(callbacks) ==
  \E cb \in callbacks :
    /\ Ends(onConnect([S EXCEPT !.args = <<cb>>], cb), "onConnect", NoSocket,
            0, MaxSockets)
    /\ fresh' = 0
    /\ UNCHANGED <<opens, resetId, abnormalRun>>

\* onDisconnect(callback)
OnDisconnectWith(callbacks) ==
  \E cb \in callbacks :
    /\ Ends(onDisconnect([S EXCEPT !.args = <<cb>>], cb), "onDisconnect",
            NoSocket, 0, MaxSockets)
    /\ fresh' = 0
    /\ UNCHANGED <<opens, resetId, abnormalRun>>

OnConnect == OnConnectWith(ObserverArgs)

OnDisconnect == OnDisconnectWith(ObserverArgs)

\* the transport signals that handle s is open
TransportOpen ==
  \E s \in 1..Len(readyState), thr \in BOOLEAN :
    /\ readyState[s] = CONNECTING
    /\ Ends(onopen([S EXCEPT !.readyState[s] = OPEN], thr), "onopen", s, 0,
            MaxSockets)
    /\ opens' = Min(opens + 1, 2)
    /\ abnormalRun' = 0
    /\ fresh' = 0
    /\ UNCHANGED resetId

\* the close codes the transport can report for a handle in state rs: a
\* handle that never opened fails abnormally; a handle the client has
\* closed reports the code of the peer's close frame (1000, or 1005 when
\* the peer echoes the client's frame, which has no code) or fails
CodesFor(rs) ==
  CASE rs = CONNECTING -> {AbnormalClosure}
    [] rs = CLOSING -> CloseCodes \cup {NoStatusReceived}
    [] OTHER -> CloseCodes

\* the transport signals that handle s is closed, with a close code
TransportCloseOf(lim) ==
  \E s \in 1..Len(readyState) :
    /\ readyState[s] # CLOSED
    /\ \E code \in CodesFor(readyState[s]) :
         /\ Ends(onclose([S EXCEPT !.readyState[s] = CLOSED], code),
                 "onclose", s, code, lim)
         /\ abnormalRun' = IF code # NormalClosure THEN abnormalRun + 1
                           ELSE abnormalRun
    /\ fresh' = 0
    /\ UNCHANGED <<opens, resetId>>

TransportClose == TransportCloseOf(MaxSockets)

\* the frames the transport can deliver: the identifiers drawn so far and
\* one that has not been drawn
InboundFrames ==
  {PongFrame, GarbageFrame, BinaryFrame, InheritedFrame}
    \cup {EventFrame(id) : id \in 1..nextId}

\* the transport delivers an inbound frame on handle s, which is open or
\* has been asked to close; st is the state the handler starts from
TransportDelivers(st, data) ==
  \E s \in 1..Len(readyState) :
    /\ readyState[s] \in {OPEN, CLOSING}
    /\ Ends(onmessage(st, data), "onmessage", s, 0, MaxSockets)
    /\ fresh' = 0
    /\ UNCHANGED <<opens, resetId, abnormalRun>>

TransportMessage == \E data \in InboundFrames : TransportDelivers(S, data)

\* the same, with the frame kept in the history
TransportFrame ==
  \E data \in InboundFrames :
    TransportDelivers([S EXCEPT !.args = <<data>>], data)

\* the pending retry timer fires and calls openSocket
RetryTimerFiresOf(lim) ==
  /\ retryTimeout = Live
  /\ Ends(openSocket([S EXCEPT !.retryTimeout = Dead]), "retryTimer",
          NoSocket, 0, lim)
  /\ fresh' = 0
  /\ UNCHANGED <<opens, resetId, abnormalRun>>

RetryTimerFires == RetryTimerFiresOf(MaxSockets)

\* a ping interval fires and sends PING on this.socket
PingTimerFires ==
  /\ pingInterval = Live \/ pingLeaked > 0
  /\ \E thr \in BOOLEAN :
       Ends(send(S, PingFrame, thr), "pingTimer", NoSocket, 0, MaxSockets)
  /\ fresh' = 0
  /\ UNCHANGED <<opens, resetId, abnormalRun>>

\* the typed subscribe call of the lifecycle specification
OnTicketCalled == OnTicketCalledWith({"cb"}, {UndefArg})

Next ==
  \/ SetKey
  \/ OpenSocket
  \/ CloseSocket
  \/ Reset
  \/ OnTicketCalled
  \/ TransportOpen
  \/ TransportClose
  \/ TransportMessage
  \/ RetryTimerFires
  \/ PingTimerFires

Spec == Init /\ [][Next]_vars

(***************************************************************************)
(* What the last operation handed to send().                               *)
(***************************************************************************)
\* the subscribe messages among the frames handed to send()
SubEntries(frames) == SelectSeq(frames, IsSubscribeFrame)

\* the identifiers of the subscribe messages, in the order of the sends
SentIds(frames) ==
  [i \in 1..Len(SubEntries(frames)) |-> SubEntries(frames)[i].frame.json.id]

\* the identifiers of the subscribe messages handed to an open handle
IsDelivered(e) == IsSubscribeFrame(e) /\ e.rs = OPEN
DeliveredIds(frames) ==
  [i \in 1..Len(SelectSeq(frames, IsDelivered)) |->
     SelectSeq(frames, IsDelivered)[i].frame.json.id]

\* the identifiers from a up to b - 1, in order
IdsFrom(a, b) == [i \in 1..(b - a) |-> a + i - 1]

\* the registry as the replay sends it on handle s
ReplayOf(subs, s) ==
  [i \in 1..Len(subs) |-> [sock |-> s, rs |-> OPEN, frame |-> Stringify(subs[i])]]

(***************************************************************************)
(* C1.  No subscribe message reaches a transport before the first open     *)
(* signal, and when the first open signal arrives the handler sends the    *)
(* records of all typed subscribe calls made so far, each once, in the     *)
(* order of the calls.  The calls are counted from construction or from    *)
(* the last reset(), which empties the registry.  The code sends on        *)
(* this.socket whichever handle has opened: when reset() has left a handle *)
(* connecting and a subscribe has created a second one, the open signal of *)
(* the first makes the replay call send() on the second, which is still    *)
(* connecting, and send() throws.                                          *)
(***************************************************************************)
C1_CallsBeforeFirstOpenReplayed ==
  /\ opens = 0 => DeliveredIds(last.frames) = <<>>
  /\ (last.op = "onopen" /\ opens = 1) =>
        DeliveredIds(last.frames) = IdsFrom(resetId, nextId)

(***************************************************************************)
(* C2.  On every open signal the handler hands every record of the         *)
(* registry to send(), in registry order, as the message of that record,   *)
(* on the handle that has opened, and leaves the registry, the dispatch    *)
(* table and the identifiers drawn so far as they were.  The code sends on *)
(* this.socket, which is another handle when reset() has left a connecting *)
(* handle behind and a second one was opened since: send() then throws.    *)
(***************************************************************************)
C2_EveryOpenReplaysRegistry ==
  [][last'.op = "onopen" =>
       /\ SubEntries(last'.frames) = ReplayOf(subscriptions, last'.sock)
       /\ subscriptions' = subscriptions
       /\ subscriptionCallbackMap' = subscriptionCallbackMap
       /\ nextId' = nextId]_vars

(***************************************************************************)
(* The retry specification: the caller sets the key, asks for the          *)
(* connection and resets; the transport opens and closes handles; a        *)
(* pending retry timer eventually fires (setTimeout).                      *)
(***************************************************************************)
LiveSockets == MaxSockets + 1

OpenSocketLive == OpenSocketCall(LiveSockets)
TransportCloseLive == TransportCloseOf(LiveSockets)
RetryTimerFiresLive == RetryTimerFiresOf(LiveSockets)

NextLive ==
  \/ SetKey
  \/ OpenSocketLive
  \/ Reset
  \/ TransportOpen
  \/ TransportCloseLive
  \/ RetryTimerFiresLive

SpecLive == Init /\ [][NextLive]_vars /\ WF_vars(RetryTimerFiresLive)

\* an abnormal close has just been handled with an API key set, and the
\* bound of the model leaves room for another handle
AfterAbnormalClose ==
  /\ last.op = "onclose" /\ last.code # 1000
  /\ apiKey # ""
  /\ Len(readyState) < LiveSockets

\* the handle this.socket refers to is connecting or open: an open attempt
\* has been made and has not failed
AttemptInFlight ==
  socket # NoSocket /\ readyState[socket] \in {CONNECTING, OPEN}

\* C3.  After an abnormal close, unless the caller resets the client or
\* sets the key, an open attempt is eventually made: the client comes to
\* hold a handle that is connecting or open.  With a handle that reset()
\* left connecting, the open signal of that handle sets connected, and the
\* retry timer's openSocket then returns without an attempt: the client
\* keeps a closed handle for ever.
C3_AbnormalCloseLeadsToOpenAttempt ==
  AfterAbnormalClose ~> (AttemptInFlight \/ last.op \in {"reset", "setKey"})

(***************************************************************************)
(* The backoff specification: the caller sets the key and asks for the     *)
(* connection; every connection attempt fails (the transport closes the    *)
(* handle before it has opened); the retry timer fires.  Up to             *)
(* MaxRetries + 1 handles are created.                                     *)
(***************************************************************************)
BackoffSockets == MaxRetries + 1

OpenSocketBackoff == OpenSocketCall(BackoffSockets)
TransportCloseBackoff == TransportCloseOf(BackoffSockets)
RetryTimerFiresBackoff == RetryTimerFiresOf(BackoffSockets)

NextBackoff ==
  \/ SetKey
  \/ OpenSocketBackoff
  \/ TransportCloseBackoff
  \/ RetryTimerFiresBackoff

SpecBackoff == Init /\ [][NextBackoff]_vars

\* C4.  As stated: after the N-th consecutive abnormal close the retry
\* timer is started with min(5000 + 1000 * floor(N / 10), 60000) ms.  The
\* code computes the delay before it counts the close, so the 10th close
\* still waits 5000 ms.
C4_DelayFromCloses ==
  (last.op = "onclose" /\ last.code # 1000) =>
     /\ retryTimeout = Live
     /\ retryDelay = Min(5000 + 1000 * (abnormalRun \div 10), 60000)

\* C4, amended: after N consecutive abnormal closes with no open signal in
\* between, counted from a retry counter of 0, the retry timer started
\* before attempt N + 1 has the delay
\* min(5000 + 1000 * floor((N - 1) / 10), 60000) ms, for every N >= 1.
C4_DelayFromEarlierCloses ==
  (last.op = "onclose" /\ last.code # 1000) =>
     /\ abnormalRun >= 1
     /\ retryTimeout = Live
     /\ retryDelay = Min(5000 + 1000 * ((abnormalRun - 1) \div 10), 60000)

\* C4 witness: the delay has reached the cap of 60000 ms, which the formula
\* reaches with the 551st consecutive abnormal close
C4_Witness ==
  /\ last.op = "onclose" /\ last.code # 1000
  /\ abnormalRun = 551
  /\ retryDelay = 60000

(***************************************************************************)
(* C5.  After a close signal with code 1000 has been handled the client is *)
(* Idle (not connecting, not connected), no retry timer is pending and no  *)
(* ping timer runs.  The handler itself starts no retry timer, but it      *)
(* cancels none either: a retry timer started by the abnormal close of a   *)
(* handle that reset() left behind is still pending.                       *)
(***************************************************************************)
C5_NormalCloseSettlesIdle ==
  (last.op = "onclose" /\ last.code = NormalClosure) =>
     /\ ~connecting
     /\ ~connected
     /\ retryTimeout # Live
     /\ pingInterval # Live
     /\ pingLeaked = 0

(***************************************************************************)
(* C6.  Immediately after an open signal is handled the retry counter is   *)
(* 0; an abnormal close adds exactly 1 to it, a close with code 1000       *)
(* leaves it, reset() sets it to 0, and no other operation changes it.     *)
(***************************************************************************)
C6_RetryCounterSteps ==
  /\ last.op = "onopen" => connectionRetries = 0
  /\ last.op = "reset" => connectionRetries = 0
  /\ last.op = "onclose" =>
       connectionRetries =
         IF last.code # NormalClosure THEN last.pre.retries + 1
                                      ELSE last.pre.retries
  /\ last.op \notin {"onopen", "reset", "onclose", "constructor"} =>
       connectionRetries = last.pre.retries

\* C6 witness: an open signal has been handled with a retry counter that
\* was not 0 before
C6_Witness ==
  /\ last.op = "onopen"
  /\ last.pre.retries > 0
  /\ connectionRetries = 0

(***************************************************************************)
(* C7.  A typed subscribe call registers its record (appends it to the     *)
(* registry) and then acts by the flags it finds: connected - it hands the *)
(* message of the record to send() on this.socket and opens nothing;       *)
(* connecting and not connected - it sends nothing and opens nothing;      *)
(* neither - it sends nothing and starts an open.  As stated, the last     *)
(* case holds whether or not an API key is set; openSocket throws when     *)
(* none is.                                                                *)
(***************************************************************************)
Registers ==
  /\ Len(subscriptions') = Len(subscriptions) + 1
  /\ SubSeq(subscriptions', 1, Len(subscriptions)) = subscriptions
  /\ subscriptions'[Len(subscriptions')].id = nextId

SendsRecord ==
  /\ Len(last'.frames) = 1
  /\ last'.frames[1].sock = socket
  /\ last'.frames[1].frame = Stringify(subscriptions'[Len(subscriptions')])
  /\ ~last'.opened
  /\ readyState' = readyState

OnlyRegisters ==
  /\ last'.frames = <<>>
  /\ ~last'.opened /\ ~last'.threw
  /\ UNCHANGED <<readyState, socket, connecting, connected>>

StartsOpen ==
  /\ last'.frames = <<>>
  /\ last'.opened /\ ~last'.threw
  /\ socket' = Len(readyState')
  /\ readyState'[socket'] = CONNECTING
  /\ connecting' /\ ~connected'

\* C7, as stated: a typed subscribe call registers its record, and sends
\* it when connected, does no more when connecting, starts an open when
\* neither, whatever the API key
C7_SubscribeByState ==
  [][last'.op = "onTicketCalled" =>
       /\ Registers
       /\ connected => SendsRecord
       /\ (connecting /\ ~connected) => OnlyRegisters
       /\ (~connecting /\ ~connected) => StartsOpen]_vars

\* C7, amended: as C7, with the last case split by the API key: with a key
\* set the call starts an open; with no key set the call throws after it
\* has registered the record, and creates no transport handle.
C7_SubscribeByStateAndKey ==
  [][last'.op = "onTicketCalled" =>
       /\ Registers
       /\ connected => SendsRecord
       /\ (connecting /\ ~connected) => OnlyRegisters
       /\ (~connecting /\ ~connected /\ apiKey # "") => StartsOpen
       /\ (~connecting /\ ~connected /\ apiKey = "") =>
            /\ last'.threw /\ ~last'.opened /\ last'.frames = <<>>
            /\ UNCHANGED <<readyState, socket, connecting, connected>>]_vars

\* C7 witness: a typed subscribe call made with a key set, neither
\* connecting nor connected, after an earlier connection (the handle is the
\* second one), has started an open
C7_Witness ==
  /\ last.op = "onTicketCalled"
  /\ ~last.pre.connecting /\ ~last.pre.connected
  /\ last.opened /\ socket = 2
  /\ apiKey # ""

(***************************************************************************)
(* C8.  When the caller has called reset(), setKey with a non-empty key    *)
(* and a typed subscribe in a row, the subscribe has created a new handle, *)
(* which is connecting, has sent nothing, and the registry holds the       *)
(* record of that call and no other; and at any time, no operation hands   *)
(* to send() a record that was registered before the last reset().         *)
(***************************************************************************)
C8_FreshSubscribeAfterReset ==
  /\ fresh = 3 =>
       /\ last.opened /\ ~last.threw
       /\ last.frames = <<>>
       /\ socket = Len(readyState)
       /\ readyState[socket] = CONNECTING
       /\ connecting /\ ~connected
       /\ Len(subscriptions) = 1
       /\ subscriptions[1].id = resetId
       /\ nextId = resetId + 1
       /\ DOMAIN subscriptionCallbackMap = {resetId}
  /\ \A i \in 1..Len(SentIds(last.frames)) :
       SentIds(last.frames)[i] >= resetId

\* C8 witness: reset() was called with an open connection that had a
\* record registered; the handle of that connection is closing and the
\* subscribe has created the second handle
C8_Witness ==
  /\ fresh = 3
  /\ resetId = 2
  /\ Len(readyState) = 2
  /\ readyState[1] = CLOSING
  /\ socket = 2

(***************************************************************************)
(* C9.  After reset() the client is not connecting and not connected, no   *)
(* retry timer is pending, no ping timer runs, the registry, the dispatch  *)
(* table and both observer lists are empty, the retry counter is 0, and no *)
(* transport handle is open.  reset() closes this.socket only, and clears  *)
(* only the ping timer whose handle the object holds: the handle that an   *)
(* earlier reset() left behind stays open, and the ping timer that its     *)
(* open signal overwrote keeps running.                                    *)
(***************************************************************************)
C9_ResetReinitializes ==
  last.op = "reset" =>
     /\ ~connecting
     /\ ~connected
     /\ retryTimeout # Live
     /\ pingInterval # Live
     /\ pingLeaked = 0
     /\ subscriptions = <<>>
     /\ subscriptionCallbackMap = <<>>
     /\ onConnectCallbacks = <<>>
     /\ onDisconnectCallbacks = <<>>
     /\ connectionRetries = 0
     /\ \A s \in 1..Len(readyState) : readyState[s] # OPEN

(***************************************************************************)
(* C10.  openSocket() called with no API key set, and a typed subscribe    *)
(* called with no API key set while the client is neither connecting nor   *)
(* connected, throw; they create no transport handle and leave             *)
(* this.socket, the flags and the timers as they were.                     *)
(***************************************************************************)
C10_NoKeyFailsFast ==
  [][(/\ apiKey = ""
      /\ \/ last'.op = "openSocket"
         \/ last'.op = "onTicketCalled" /\ ~connecting /\ ~connected) =>
       /\ last'.threw
       /\ ~last'.opened
       /\ last'.frames = <<>>
       /\ UNCHANGED <<readyState, socket, connecting, connected,
                      retryTimeout, pingInterval, pingLeaked,
                      connectionRetries>>]_vars

\* C10 witness: a typed subscribe called with no key set, neither
\* connecting nor connected, has thrown and no handle exists
C10_Witness ==
  /\ last.op = "onTicketCalled"
  /\ apiKey = ""
  /\ ~last.pre.connecting /\ ~last.pre.connected
  /\ last.threw
  /\ readyState = <<>>

(***************************************************************************)
(* The typed-call specification: the caller sets the key, opens and makes  *)
(* typed subscribe calls with every shape of argument                      *)
(* (onTicketCalled with every filter, onLocationChanged with a number,     *)
(* undefined and a string); the                                            *)
(* transport opens and closes handles and delivers frames.                 *)
(***************************************************************************)
\* the ids a caller passes to onLocationChanged
LocationIds == {NumArg(1), UndefArg, StrArg("1")}

\* the filters a caller passes to onTicketCalled
TicketFilters ==
  {UndefArg, FilterArg(UndefArg, UndefArg), FilterArg(NumArg(1), UndefArg),
   FilterArg(UndefArg, NumArg(2)), FilterArg(NumArg(1), NumArg(2))}

OnTicketCalledFiltered == OnTicketCalledWith({"cb"}, TicketFilters)
OnLocationChanged == OnLocationChangedWith({"cb"}, LocationIds)

NextTyped ==
  \/ SetKey
  \/ OpenSocket
  \/ OnTicketCalledFiltered
  \/ OnLocationChanged
  \/ TransportOpen
  \/ TransportClose
  \/ TransportFrame

SpecTyped == Init /\ [][NextTyped]_vars

(***************************************************************************)
(* C11.  onLocationChanged called with an id that is not a number throws;  *)
(* it hands nothing to send(), creates no transport handle, draws no       *)
(* identifier, and leaves the registry, the dispatch table, the flags and  *)
(* this.socket as they were.                                               *)
(***************************************************************************)
C11_NonNumberIdThrows ==
  [][(last'.op = "onLocationChanged" /\ last'.args[2].type # "number") =>
       /\ last'.threw
       /\ last'.frames = <<>>
       /\ ~last'.opened
       /\ UNCHANGED <<subscriptions, subscriptionCallbackMap, nextId,
                      readyState, socket, connecting, connected,
                      retryTimeout, pingInterval>>]_vars

\* C11 witness: onLocationChanged was called with a string as id while the
\* client was connected with a key set, and has thrown
C11_Witness ==
  /\ last.op = "onLocationChanged"
  /\ last.args[2] = StrArg("1")
  /\ last.threw
  /\ last.pre.connected
  /\ apiKey # ""

(***************************************************************************)
(* The dispatch specification: the caller sets the key and calls           *)
(* onTicketCalled with a callback that returns, one that throws an Error,  *)
(* one that throws null, and with no callback; the transport opens and     *)
(* closes the handle and delivers frames.                                  *)
(***************************************************************************)
OnTicketCalledAny ==
  OnTicketCalledWith(Callbacks \cup {NoCallback}, {UndefArg})

NextDispatch ==
  \/ SetKey
  \/ OnTicketCalledAny
  \/ TransportOpen
  \/ TransportClose
  \/ TransportFrame

SpecDispatch == Init /\ [][NextDispatch]_vars

\* the fields of the client, its transport handles and its timers
clientVars ==
  <<apiKey, socket, connecting, connected, retryTimeout, pingInterval,
    subscriptions, connectionRetries, subscriptionCallbackMap,
    onConnectCallbacks, onDisconnectCallbacks, readyState, pingLeaked,
    retryDelay, nextId>>

\* the operation of this step is the handling of an event frame
EventHandled ==
  /\ last'.op = "onmessage"
  /\ "json" \in DOMAIN last'.args[1]
  /\ "subscriptionId" \in DOMAIN last'.args[1].json

EventId == last'.args[1].json.subscriptionId

(***************************************************************************)
(* C12.  An inbound event frame whose subscriptionId has no callback in    *)
(* the dispatch table invokes no callback, throws nothing out of the       *)
(* message handler, and leaves the flags, the timers, the registry and the *)
(* dispatch table as they were.                                            *)
(***************************************************************************)
C12_UnboundEventIsNoOp ==
  [][(EventHandled /\ EventId \notin DOMAIN subscriptionCallbackMap) =>
       /\ last'.invoked = <<>>
       /\ ~last'.threw
       /\ UNCHANGED clientVars]_vars

\* C12 witness: an event frame for record 1, which was registered with no
\* callback, has been handled while the client was connected
C12_Witness ==
  /\ last.op = "onmessage"
  /\ last.args[1] = EventFrame(1)
  /\ Len(subscriptions) >= 1
  /\ 1 \notin DOMAIN subscriptionCallbackMap
  /\ connected

(***************************************************************************)
(* C13.  When the callback of an event frame throws, nothing is thrown out *)
(* of the message handler and the flags, the timers, the registry and the  *)
(* dispatch table stay as they were; and the next event frame, for another *)
(* subscription, invokes the callback of that subscription.  The catch     *)
(* block reads exc.stack: when the callback has thrown null (or            *)
(* undefined), that read throws out of the handler.                        *)
(***************************************************************************)
C13_ThrowingCallbackIsContained ==
  [][(EventHandled /\ EventId \in DOMAIN subscriptionCallbackMap) =>
       /\ Throws(subscriptionCallbackMap[EventId]) =>
            /\ last'.invoked = <<subscriptionCallbackMap[EventId]>>
            /\ ~last'.threw
            /\ UNCHANGED clientVars
       /\ (last.op = "onmessage" /\ last.invoked # <<>>
             /\ Throws(last.invoked[1])) =>
            last'.invoked = <<subscriptionCallbackMap[EventId]>>]_vars

(***************************************************************************)
(* The observer specification: the caller sets the key, opens, and         *)
(* registers connect and disconnect observers (a function that returns, a  *)
(* function that throws, a value that is not a function); the transport    *)
(* opens and closes the handle; the retry timer fires.                     *)
(***************************************************************************)
NextObservers ==
  \/ SetKey
  \/ OpenSocket
  \/ OnConnect
  \/ OnDisconnect
  \/ TransportOpen
  \/ TransportClose
  \/ RetryTimerFires

SpecObservers == Init /\ [][NextObservers]_vars

(***************************************************************************)
(* C14.  Every open signal invokes every registered connect observer once, *)
(* every close signal (code 1000 or not) invokes every registered          *)
(* disconnect observer once, and onConnect / onDisconnect given a value    *)
(* that is not a function throw and leave both lists as they were.  The    *)
(* code invokes the observers in one forEach with no guard: the exception  *)
(* of an observer ends the loop, and the observers after it are not        *)
(* invoked.                                                                *)
(***************************************************************************)
C14_ObserversInvokedOnce ==
  [][/\ last'.op = "onopen" => last'.invoked = onConnectCallbacks
     /\ last'.op = "onclose" => last'.invoked = onDisconnectCallbacks
     /\ (last'.op \in {"onConnect", "onDisconnect"}
           /\ ~IsFunction(last'.args[1])) =>
          /\ last'.threw
          /\ UNCHANGED <<onConnectCallbacks, onDisconnectCallbacks>>]_vars

(***************************************************************************)
(* C15.  A typed subscribe with a filter, made before any transport handle *)
(* exists, sends nothing and binds the identifier of its record to the     *)
(* callback; the open signal then sends one message for every record of    *)
(* the registry, and the message of the record carries its identifier, the *)
(* category and the filter fields that were defined, and no other field.   *)
(***************************************************************************)
\* the fields of the filter that are defined
DefinedFields(filter) ==
  IF filter.type # "object"
  THEN {}
  ELSE {k \in {"line", "location"} : filter[k].type # "undefined"}

\* the message { id, subscribe, line?, location? } of a subscription
ExpectedMessage(id, category, filter) ==
  [json |-> [k \in {"id", "subscribe"} \cup DefinedFields(filter) |->
               CASE k = "id" -> id
                 [] k = "subscribe" -> category
                 [] OTHER -> filter[k].val]]

C15_OneMessageWithDefinedFields ==
  [][/\ (last'.op = "onTicketCalled" /\ readyState = <<>>) =>
          /\ last'.frames = <<>>
          /\ Len(subscriptions') = Len(subscriptions) + 1
          /\ Stringify(subscriptions'[Len(subscriptions')]) =
               ExpectedMessage(nextId, "TICKET_CALLED", last'.args[2])
          /\ subscriptionCallbackMap'[nextId] = last'.args[1]
     /\ last'.op = "onopen" =>
          /\ Len(last'.frames) = Len(subscriptions)
          /\ \A i \in 1..Len(subscriptions) :
               /\ last'.frames[i].frame = Stringify(subscriptions[i])
               /\ last'.frames[i].sock = last'.sock
               /\ last'.frames[i].rs = OPEN]_vars

\* C15 witness: the open signal has sent one message, { id: 1, subscribe:
\* "TICKET_CALLED", location: 2 }, and identifier 1 is bound to the callback
C15_Witness ==
  /\ last.op = "onopen"
  /\ Len(last.frames) = 1
  /\ last.frames[1].frame =
       [json |-> [id |-> 1, subscribe |-> "TICKET_CALLED", location |-> 2]]
  /\ subscriptionCallbackMap[1] = "cb"

\* the transport handles that are connecting or open
LiveHandles ==
  {s \in 1..Len(readyState) : readyState[s] \in {CONNECTING, OPEN}}

(***************************************************************************)
(* C16.  In every reachable state at most one transport handle is          *)
(* connecting or open.  reset() clears the flags and closes this.socket    *)
(* only when it is open: a handle that is connecting stays, and the next   *)
(* openSocket creates a second one.                                        *)
(***************************************************************************)
C16_AtMostOneLiveHandle == Cardinality(LiveHandles) <= 1

\* the ping intervals that are running: the one the object holds the handle
\* of and those whose handle it has overwritten
LivePingTimers == (IF pingInterval = Live THEN 1 ELSE 0) + pingLeaked

(***************************************************************************)
(* C17.  In every reachable state at most one ping timer runs (and at most *)
(* one retry timer is pending, which the single retryTimeout handle,       *)
(* cleared before every setTimeout, guarantees).  The open handler starts  *)
(* the ping interval without clearing the one the object holds: when a     *)
(* second handle opens while the first is open, the first interval keeps   *)
(* running with no handle left to clear it.                                *)
(***************************************************************************)
C17_AtMostOnePingTimer == LivePingTimers <= 1

(***************************************************************************)
(* C18.  In every reachable state a running ping timer implies that the    *)
(* client is connected, and a pending retry timer implies that it is       *)
(* neither connecting nor connected.  The open signal of a handle that     *)
(* reset() left behind sets connected while the retry timer started by the *)
(* close of the current handle is pending.                                 *)
(***************************************************************************)
C18_TimersMatchState ==
  /\ LivePingTimers > 0 => connected
  /\ retryTimeout = Live => ~connecting /\ ~connected

(***************************************************************************)
(* C19.  openSocket() called with a key set while the client is connecting *)
(* or connected returns without an exception, creates no transport handle, *)
(* sends nothing, and leaves the flags, the timers, the retry counter, the *)
(* registry and the dispatch table as they were.                           *)
(***************************************************************************)
C19_OpenWhileConnectingIsNoOp ==
  [][(last'.op = "openSocket" /\ apiKey # "" /\ (connecting \/ connected)) =>
       /\ ~last'.threw
       /\ ~last'.opened
       /\ last'.frames = <<>>
       /\ UNCHANGED clientVars]_vars

\* C19 witness: openSocket() was called with a key set while the client was
\* connected, the ping timer running and a record registered
C19_Witness ==
  /\ last.op = "openSocket"
  /\ last.pre.connected
  /\ apiKey # ""
  /\ pingInterval = Live
  /\ Len(subscriptions) = 1
  /\ Len(readyState) = 1

(***************************************************************************)
(* C20.  closeSocket() leaves no retry timer pending, and the close signal *)
(* of a handle the caller has closed starts no retry timer.  closeSocket() *)
(* clears no timer; it calls close() with no code, and the close signal    *)
(* that follows starts the retry timer unless its code is 1000.            *)
(***************************************************************************)
C20_CallerCloseSchedulesNoRetry ==
  [][/\ last'.op = "closeSocket" => retryTimeout' # Live
     /\ (last'.op = "onclose" /\ readyState[last'.sock] = CLOSING) =>
          retryTimeout' # Live]_vars

(***************************************************************************)
(* C21.  Each observer is guarded individually: on an open signal every    *)
(* registered connect observer is invoked even if an earlier one throws,   *)
(* on a close signal every registered disconnect observer is invoked even  *)
(* if an earlier one throws, and no observer's exception leaves the        *)
(* handler.  The code has no guard: the forEach ends with the first        *)
(* exception, which leaves the handler.                                    *)
(***************************************************************************)
C21_ObserversGuardedIndividually ==
  [][/\ last'.op = "onopen" =>
          /\ Len(last'.invoked) = Len(onConnectCallbacks)
          /\ ~last'.threw
     /\ last'.op = "onclose" =>
          /\ Len(last'.invoked) = Len(onDisconnectCallbacks)
          /\ ~last'.threw]_vars

(***************************************************************************)
(* C22.  closeSocket() never throws.  With no handle it does nothing and   *)
(* reports nothing; with a handle that is connecting it reports "not open  *)
(* yet" with console.error and changes nothing (the handle stays           *)
(* connecting); with a handle that is open it closes that handle and       *)
(* changes nothing else; and it closes a handle in no other case.          *)
(***************************************************************************)
C22_CloseOnlyWhenOpen ==
  [][last'.op = "closeSocket" =>
       /\ ~last'.threw
       /\ socket = NoSocket =>
            /\ last'.errors = <<>>
            /\ UNCHANGED clientVars
       /\ (socket # NoSocket /\ readyState[socket] = CONNECTING) =>
            /\ last'.errors = <<NotOpenYet>>
            /\ UNCHANGED clientVars
       /\ (socket # NoSocket /\ readyState[socket] = OPEN) =>
            /\ readyState' = [readyState EXCEPT ![socket] = CLOSING]
            /\ UNCHANGED <<apiKey, socket, connecting, connected,
                           retryTimeout, pingInterval, subscriptions,
                           connectionRetries, subscriptionCallbackMap,
                           pingLeaked, nextId>>
       /\ readyState' # readyState =>
            socket # NoSocket /\ readyState[socket] = OPEN]_vars

\* C22 witness: closeSocket() was called while the handle was connecting
\* and has reported it; the handle is still connecting
C22_Witness ==
  /\ last.op = "closeSocket"
  /\ last.errors = <<NotOpenYet>>
  /\ socket # NoSocket
  /\ readyState[socket] = CONNECTING
  /\ connecting

(***************************************************************************)
(* C23.  An inbound frame that is the literal PONG, or text that is not    *)
(* JSON, invokes no callback, throws nothing out of the message handler    *)
(* and leaves the flags, the timers, the registry, the dispatch table and  *)
(* the handles as they were; and an event frame that comes right after it, *)
(* for a subscription with a callback, invokes that callback.              *)
(***************************************************************************)
C23_PongAndGarbageIgnored ==
  [][/\ (last'.op = "onmessage"
           /\ last'.args[1] \in {PongFrame, GarbageFrame}) =>
          /\ last'.invoked = <<>>
          /\ ~last'.threw
          /\ UNCHANGED clientVars
     /\ (/\ last.op = "onmessage"
         /\ last.args[1] \in {PongFrame, GarbageFrame}
         /\ EventHandled
         /\ EventId \in DOMAIN subscriptionCallbackMap) =>
          last'.invoked = <<subscriptionCallbackMap[EventId]>>]_vars

\* C23 witness: text that is not JSON has been handled on an open handle
\* while subscription 1 has a callback in the dispatch table
C23_Witness ==
  /\ last.op = "onmessage"
  /\ last.args[1] = GarbageFrame
  /\ ~last.threw
  /\ 1 \in DOMAIN subscriptionCallbackMap
  /\ connected

(***************************************************************************)
(* C24.  After every step no two records of the registry have the same id, *)
(* and an open signal, whose replay calls subscribe with every record of   *)
(* the registry, leaves the registry as it was: same records, same order.  *)
(***************************************************************************)
C24_RegistrationIdempotent ==
  [][/\ \A i, j \in 1..Len(subscriptions') :
          subscriptions'[i].id = subscriptions'[j].id => i = j
     /\ last'.op = "onopen" => subscriptions' = subscriptions]_vars

\* C24 witness: an open signal has replayed a registry of two records
C24_Witness ==
  /\ last.op = "onopen"
  /\ Len(subscriptions) = 2
  /\ Len(last.frames) = 2
  /\ subscriptions[1].id # subscriptions[2].id

\* a subscribe message handed to send() on a handle whose Open period is
\* under way: the handle has had its open signal and not its close signal
InPeriod(e) == IsSubscribeFrame(e) /\ e.rs \in {OPEN, CLOSING}

\* the identifiers of the subscribe messages sent on handle s during its
\* Open period, in the order of the sends
PeriodIds(frames, s) ==
  LET OnS(e) == InPeriod(e) /\ e.sock = s
  IN [i \in 1..Len(SelectSeq(frames, OnS)) |->
        SelectSeq(frames, OnS)[i].frame.json.id]

\* the identifiers of the registry, in registry order
RegistryIds(subs) == [i \in 1..Len(subs) |-> subs[i].id]

(***************************************************************************)
(* C25.  In the Open period of a handle every record is sent exactly once. *)
(* Step by step: the open signal of a handle sends on that handle every    *)
(* record of the registry, each once; a typed subscribe call made while    *)
(* the Open period of the current handle is under way sends its new record *)
(* on that handle, once, and nothing else; and no other step sends a       *)
(* subscribe message on a handle whose Open period is under way: not a     *)
(* timer, not a caller's other operation, not the open signal of another   *)
(* handle.                                                                 *)
(***************************************************************************)
C25_SentOncePerOpenPeriod ==
  [][/\ last'.op = "onopen" =>
          PeriodIds(last'.frames, last'.sock) = RegistryIds(subscriptions')
     /\ (/\ last'.op = "onTicketCalled"
         /\ nextId' = nextId + 1
         /\ socket # NoSocket
         /\ readyState[socket] \in {OPEN, CLOSING}) =>
          PeriodIds(last'.frames, socket) = <<nextId>>
     /\ \A k \in 1..Len(last'.frames) :
          InPeriod(last'.frames[k]) =>
            \/ last'.op = "onopen" /\ last'.frames[k].sock = last'.sock
            \/ last'.op = "onTicketCalled"]_vars

(***************************************************************************)
(* C26.  Every frame an operation hands to send(), a subscribe message of  *)
(* a typed call or of the replay or a PING, is handed to the current       *)
(* handle while the readyState of that handle is OPEN.                     *)
(***************************************************************************)
C26_SendOnlyOnOpenHandle ==
  \A k \in 1..Len(last.frames) :
    /\ last.frames[k].sock = socket
    /\ last.frames[k].rs = OPEN

\* the identifiers of the subscribe messages an operation has handed to an
\* open handle
DeliveredSet(frames) ==
  {DeliveredIds(frames)[i] : i \in 1..Len(DeliveredIds(frames))}

(***************************************************************************)
(* C27.  A typed subscribe call made while no API key is set throws and    *)
(* creates no handle, and has appended its record to the registry and      *)
(* bound its callback in the dispatch table; no later operation but        *)
(* reset() removes a record from the registry or a callback from the       *)
(* dispatch table; and the replay of an open signal delivers every record  *)
(* of the registry, so also the records of those calls.                    *)
(***************************************************************************)
C27_NoKeySubscribeRegisters ==
  [][/\ (last'.op = "onTicketCalled" /\ apiKey = "") =>
          /\ last'.threw
          /\ ~last'.opened
          /\ subscriptions' =
               Append(subscriptions,
                      [id |-> nextId, subscribe |-> "TICKET_CALLED"])
          /\ subscriptionCallbackMap' =
               Put(subscriptionCallbackMap, nextId, last'.args[1])
     /\ last'.op # "reset" =>
          /\ Len(subscriptions') >= Len(subscriptions)
          /\ \A i \in 1..Len(subscriptions) :
               subscriptions'[i] = subscriptions[i]
          /\ \A id \in DOMAIN subscriptionCallbackMap :
               /\ id \in DOMAIN subscriptionCallbackMap'
               /\ subscriptionCallbackMap'[id] = subscriptionCallbackMap[id]
     /\ last'.op = "onopen" =>
          \A i \in 1..Len(subscriptions) :
            subscriptions[i].id \in DeliveredSet(last'.frames)]_vars

(***************************************************************************)
(* The ordering specification: the caller sets the key, opens, makes typed *)
(* subscribe calls, registers connect and disconnect observers (a function *)
(* that returns, a function that throws); the transport opens and closes   *)
(* handles; the retry timer fires.                                         *)
(***************************************************************************)
OnConnectFunction == OnConnectWith({"cb", "cbThrows"})

OnDisconnectFunction == OnDisconnectWith({"cb", "cbThrows"})

NextOrder ==
  \/ SetKey
  \/ OpenSocket
  \/ OnTicketCalled
  \/ OnConnectFunction
  \/ OnDisconnectFunction
  \/ TransportOpen
  \/ TransportClose
  \/ RetryTimerFires

SpecOrder == Init /\ [][NextOrder]_vars

(***************************************************************************)
(* C28.  When the close signal of an abnormal close has been handled, the  *)
(* ping timer of the client is cancelled, the retry timer is pending and   *)
(* the retry counter has gone up by one, whether or not a disconnect       *)
(* observer has thrown; and when the open signal has invoked a connect     *)
(* observer, the replay has handed every record of the registry to send()  *)
(* and the ping timer is running, whether or not that observer has thrown. *)
(***************************************************************************)
C28_TimersBeforeObservers ==
  [][/\ (last'.op = "onclose" /\ last'.code # NormalClosure) =>
          /\ pingInterval' = Null
          /\ retryTimeout' = Live
          /\ connectionRetries' = connectionRetries + 1
     /\ (last'.op = "onopen" /\ last'.invoked # <<>>) =>
          /\ SentIds(last'.frames) = RegistryIds(subscriptions)
          /\ pingInterval' = Live]_vars

\* C28 witness: an abnormal close has been handled, a disconnect observer
\* has thrown out of the handler, and the retry timer is pending
C28_Witness ==
  /\ last.op = "onclose"
  /\ last.code # NormalClosure
  /\ last.threw
  /\ last.invoked # <<>>
  /\ retryTimeout = Live
  /\ connectionRetries = last.pre.retries + 1
====
